---- MODULE Spec2Model ----
(***************************************************************************)
(* Model of scripts/index_verified_answers.py: the verified-answers        *)
(* indexer (list repositories, fetch each README, extract the verified     *)
(* links, fetch each linked file, submit one batch to the search index).   *)
(*                                                                         *)
(* Text is a sequence of one-character strings.  The characters the        *)
(* pattern of extract_verified_links distinguishes are named below; every  *)
(* other string is an ordinary character.                                  *)
(***************************************************************************)
EXTENDS Integers, Sequences, FiniteSets, TLC

\* ---- bounds -------------------------------------------------------------
MaxRepos == 2
MaxFrags == 3

\* ---- characters ---------------------------------------------------------
CHK   == "CHK"      \* the checkmark U+2705
ARROW == "ARROW"    \* the arrow U+2192
STAR  == "*"
TICK  == "TICK"     \* the backquote
SP    == " "
NL    == "NL"       \* line feed
BAD   == "xFF"      \* a byte that is not valid UTF-8

\* ---- configuration (lines 25-31) ----------------------------------------
ORG == "Discord-Account-Support-Corp"
INDEX_NAME == "verified_answers"
None == "None"      \* os.getenv of an unset variable

\* ---- the pattern of extract_verified_links (line 74) ---------------------
\*   CHK \s+ \*\* (.+?) \*\* .*? ARROW \s* TICK ([^TICK]+) TICK
\* re.findall is called without flags, so the dot is every character but the
\* line feed, and \s is the whitespace class.

\* \s of the \s+ that follows the checkmark
WsAfterCheck(c) == c \in {SP, NL}

\* the dot of the title group (.+?)
TitleChar(c) == c # NL

\* the dot of the .*? between the title and the arrow
GapChar(c) == c # NL

WsAfterArrow_nottick(c) == c # TICK
\* \s of the \s* that follows the arrow
WsAfterArrow(c) == c \in {SP, NL}

\* [^TICK] of the path group
PathChar(c) == c # TICK

At(s, k) == IF k \in 1..Len(s) THEN s[k] ELSE "EOF"

Max(S) == CHOOSE x \in S : \A y \in S : y <= x
Min(S) == CHOOSE x \in S : \A y \in S : x <= y

\* TICK ([^TICK]+) TICK with the opening backtick at b: the index of the closing
\* backtick, 0 when there is no match.  The group is greedy.
PathFrom(s, b) ==
    LET P == { p \in (b+1)..(Len(s)-1) :
                 /\ \A k \in (b+1)..p : PathChar(s[k])
                 /\ s[p+1] = TICK }
    IN  IF At(s, b) = TICK /\ P # {} THEN Max(P) + 1 ELSE 0

\* ARROW \s* TICK ([^TICK]+) TICK with the arrow at a: the index of the opening
\* backtick, 0 when there is no match.  \s* is greedy.
TailFrom(s, a) ==
    LET V == { v \in a..Len(s) :
                 /\ \A k \in (a+1)..v : WsAfterArrow(s[k])
                 /\ PathFrom(s, v+1) # 0 }
    IN  IF At(s, a) = ARROW /\ V # {} THEN Max(V) + 1 ELSE 0

\* .*? ARROW ... with the gap starting at c: the index of the arrow, 0 when
\* there is no match.  .*? is lazy: the nearest arrow that lets the rest match.
GapFrom(s, c) ==
    LET G == { g \in (c-1)..Len(s) :
                 /\ \A k \in c..g : GapChar(s[k])
                 /\ TailFrom(s, g+1) # 0 }
    IN  IF G # {} THEN Min(G) + 1 ELSE 0

\* (.+?) \*\* ... with the title starting at b: the index of the last
\* character of the title, 0 when there is no match.  .+? is lazy.
TitleFrom(s, b) ==
    LET T == { t \in b..Len(s) :
                 /\ \A k \in b..t : TitleChar(s[k])
                 /\ At(s, t+1) = STAR /\ At(s, t+2) = STAR
                 /\ GapFrom(s, t+3) # 0 }
    IN  IF T # {} THEN Min(T) ELSE 0

\* One attempt of the whole pattern at position i.
MatchAt(s, i) ==
    LET W  == { w \in (i+1)..Len(s) :
                  /\ \A k \in (i+1)..w : WsAfterCheck(s[k])
                  /\ At(s, w+1) = STAR /\ At(s, w+2) = STAR
                  /\ TitleFrom(s, w+3) # 0 }
        w  == Max(W)
        t  == TitleFrom(s, w+3)
        a  == GapFrom(s, t+3)
        b  == TailFrom(s, a)
        e  == PathFrom(s, b)
    IN  IF At(s, i) = CHK /\ W # {}
        THEN [ok |-> TRUE, title |-> SubSeq(s, w+3, t),
              path |-> SubSeq(s, b+1, e-1), end |-> e]
        ELSE [ok |-> FALSE, title |-> <<>>, path |-> <<>>, end |-> 0]

RECURSIVE FindAllFrom(_, _)
\* re.findall: leftmost matches, scanning on after the end of each match.
FindAllFrom(s, i) ==
    IF i > Len(s) THEN <<>>
    ELSE LET m == MatchAt(s, i)
         IN  IF m.ok THEN << <<m.title, m.path>> >> \o FindAllFrom(s, m.end + 1)
             ELSE FindAllFrom(s, i + 1)

extract_verified_links(readme_text) == FindAllFrom(readme_text, 1)

\* ---- README texts built from marker fragments ----------------------------
\* A fragment is one marker, well formed or not; fragment k carries the title
\* character "t<k>" and the path character "p<k>", so that a pair of the
\* result can be traced to the fragment it came from.
Variants == {"plain", "text_gap", "nl_title", "nl_gap", "bare_path",
             "no_check", "nl_space", "padded"}

FragTitle(v, k) ==
    LET t == "t" \o ToString(k)
    IN  CASE v = "nl_title" -> <<t, NL, "u">>
          [] v = "padded"   -> <<SP, t, SP>>
          [] OTHER          -> <<t>>

FragPath(v, k) ==
    LET p == "p" \o ToString(k)
    IN  IF v = "nl_space" THEN <<p, NL, "q">> ELSE <<p>>

FragGap(v) ==
    CASE v = "text_gap" -> <<SP, "x">>
      [] v = "nl_gap"   -> <<"x", NL, "y">>
      [] OTHER          -> <<>>

FragText(v, k) ==
       (IF v = "no_check" THEN <<>> ELSE <<CHK>>)
    \o (IF v = "nl_space" THEN <<NL>> ELSE <<SP>>)
    \o <<STAR, STAR>> \o FragTitle(v, k) \o <<STAR, STAR>>
    \o FragGap(v) \o <<SP, ARROW>>
    \o (CASE v = "bare_path" -> <<SP>> \o FragPath(v, k)
          [] v = "nl_space"  -> <<NL, TICK>> \o FragPath(v, k) \o <<TICK>>
          [] OTHER           -> <<SP, TICK>> \o FragPath(v, k) \o <<TICK>>)

RECURSIVE RenderFrom(_, _, _)
RenderFrom(fs, ss, k) ==
    IF k > Len(fs) THEN <<>>
    ELSE FragText(fs[k], k) \o <<ss[k]>> \o RenderFrom(fs, ss, k + 1)

\* The text of the fragments fs, fragment k followed by the separator ss[k].
Render(fs, ss) == RenderFrom(fs, ss, 1)

\* Index of the first character of fragment k in Render(fs, ss).
RECURSIVE FragStart(_, _)
FragStart(fs, k) ==
    IF k = 1 THEN 1 ELSE FragStart(fs, k - 1) + Len(FragText(fs[k-1], k-1)) + 1

SeqsUpTo(S, n) == UNION { [1..m -> S] : m \in 0..n }

\* ---- the hosting API as the program sees it ------------------------------
\* One response of requests.get: raised is a transport failure (the call
\* raises instead of returning); otherwise status is the status code, json
\* tells whether the body parses, names is the repository list of a listing
\* body, has_content / b64ok / bytes describe the "content" field of a
\* contents body (bytes are the base64-decoded bytes).
Resp(raised, status, json, names, has_content, b64ok, bytes) ==
    [raised |-> raised, status |-> status, json |-> json, names |-> names,
     has_content |-> has_content, b64ok |-> b64ok, bytes |-> bytes]

Statuses == {200, 300, 404, 500}

RepoNames == { "r" \o ToString(k) : k \in 1..MaxRepos }

\* Listings: every sequence of distinct repository names.
RepoLists ==
    { L \in SeqsUpTo(RepoNames, MaxRepos) :
        \A a, b \in 1..Len(L) : a # b => L[a] # L[b] }

ListResponses ==
    {Resp(TRUE, 0, FALSE, <<>>, FALSE, FALSE, <<>>)}
    \cup { Resp(FALSE, st, FALSE, <<>>, FALSE, FALSE, <<>>) : st \in Statuses }
    \cup { Resp(FALSE, st, TRUE, L, FALSE, FALSE, <<>>) :
             st \in Statuses, L \in RepoLists }

ContentResponses(Bodies) ==
    {Resp(TRUE, 0, FALSE, <<>>, FALSE, FALSE, <<>>),
     Resp(FALSE, 404, TRUE, <<>>, FALSE, FALSE, <<>>),
     Resp(FALSE, 200, FALSE, <<>>, FALSE, FALSE, <<>>),
     Resp(FALSE, 200, TRUE, <<>>, FALSE, FALSE, <<>>),
     Resp(FALSE, 200, TRUE, <<>>, TRUE, FALSE, <<>>)}
    \cup { Resp(FALSE, 200, TRUE, <<>>, TRUE, TRUE, b) : b \in Bodies }

\* README bodies served by the hosting API: undecodable bytes only, text
\* without a marker, one marker, two markers (the first with a padded title
\* and an undecodable byte in front).
ReadmeBodies ==
    { <<BAD>>, <<"h">>,
      Render(<<"plain">>, <<NL>>),
      <<BAD>> \o Render(<<"padded", "plain">>, <<NL, NL>>) }

FileBodies == { <<BAD>>, <<"h">>, <<"i", BAD>> }

Returned(v) == [exc |-> "", value |-> v]
Raised(e)   == [exc |-> e, value |-> <<>>]

RaiseForStatus_5xx(status) == status \in 500..599
\* res.raise_for_status(): raises for the status codes 400..599 only
RaiseForStatus(status) == status \in 400..599

\* base64.b64decode(...).decode("utf-8", errors="ignore"): the bytes that are
\* not valid UTF-8 are dropped
Decode(bytes) == SelectSeq(bytes, LAMBDA c : c # BAD)

get_repos(res) ==
    IF res.raised THEN Raised("ConnectionError")
    ELSE IF RaiseForStatus(res.status) THEN Raised("HTTPError")
    ELSE IF ~res.json THEN Raised("JSONDecodeError")
    ELSE Returned(res.names)

get_file_content(res) ==
    IF res.raised THEN Raised("ConnectionError")
    ELSE IF res.status # 200 THEN Returned(<<>>)
    ELSE IF ~res.json THEN Raised("JSONDecodeError")
    ELSE IF res.has_content
         THEN IF res.b64ok THEN Returned(Decode(res.bytes))
              ELSE Raised("binascii.Error")
         ELSE Returned(<<>>)

get_readme(res) ==
    IF res.raised THEN Raised("ConnectionError")
    ELSE IF res.status # 200 THEN Returned(<<>>)
    ELSE IF ~res.json THEN Raised("JSONDecodeError")
    ELSE IF res.has_content
         THEN IF res.b64ok THEN Returned(Decode(res.bytes))
              ELSE Raised("binascii.Error")
         ELSE Returned(<<>>)

\* ---- the orchestrator -----------------------------------------------------
IsWs(c) == c \in {SP, NL}

RECURSIVE LStrip(_)
LStrip(s) == IF s # <<>> /\ IsWs(Head(s)) THEN LStrip(Tail(s)) ELSE s

RECURSIVE RStrip(_)
RStrip(s) ==
    IF s # <<>> /\ IsWs(s[Len(s)]) THEN RStrip(SubSeq(s, 1, Len(s) - 1)) ELSE s

\* str.strip()
Strip(s) == RStrip(LStrip(s))

Url(repo, filepath) ==
    <<"https://github.com/", ORG, "/", repo, "/blob/main/">> \o filepath

\* the dict literal of lines 101-108
Doc(repo, title, filepath, content) ==
    [repo |-> repo, file |-> filepath, title |-> Strip(title),
     verified |-> TRUE, content |-> content, url |-> Url(repo, filepath)]

TokenAbsent_none(tok) == tok = None
\* not GITHUB_TOKEN
TokenAbsent(tok) == tok \in {None, ""}

ReadmeEmpty_never(text) == FALSE
\* not readme
ReadmeEmpty(text) == text = <<>>

ContentEmpty_never(content) == FALSE
\* not content
ContentEmpty(content) == content = <<>>

NoDocs_never(docs) == FALSE
\* not all_docs
NoDocs(docs) == docs = <<>>

SkipEntry_break(k, n) == n + 1
\* continue in the loop over verified_links: on to entry k + 1 of n
SkipEntry(k, n) == k + 1

AppendDoc_front(docs, d) == <<d>> \o docs
\* all_docs.append(doc)
AppendDoc(docs, d) == Append(docs, d)

\* One entry of the call trace: the helper called (repos, readme, extract,
\* file, add), the position of the repository and of the entry it was called
\* for, the status code of a listing response, the exception raised ("" when
\* the call returned) and the value returned.
Call(op, idx, ent, status, r) ==
    [op |-> op, idx |-> idx, ent |-> ent, status |-> status,
     exc |-> r.exc, result |-> r.value]

VARIABLES
    GITHUB_TOKEN,    \* the module-level token (line 26)
    pc,              \* where the run is
    repos,           \* the result of get_repos
    i,               \* position of the for loop over repos
    readme,          \* the README of the current repository
    verified_links,  \* the entries extracted from it
    j,               \* position of the for loop over verified_links
    all_docs,        \* the accumulated documents
    indexed,         \* the batches handed to index.add_documents
    calls,           \* the call trace
    error,           \* the exception that ended the run, "" when none
    frags, seps      \* the fragments an extractor input was built from

vars == <<GITHUB_TOKEN, pc, repos, i, readme, verified_links, j, all_docs,
          indexed, calls, error, frags, seps>>

Init ==
    /\ GITHUB_TOKEN \in {None, "", "ghp_token"}
    /\ pc = "main"
    /\ repos = <<>>
    /\ i = 0
    /\ readme = <<>>
    /\ verified_links = <<>>
    /\ j = 0
    /\ all_docs = <<>>
    /\ indexed = <<>>
    /\ calls = <<>>
    /\ error = ""
    /\ frags = <<>>
    /\ seps = <<>>

Fail(e) == pc' = "failed" /\ error' = e

\* main, token missing: raise EnvironmentError (lines 123-124)
MainMissingToken ==
    /\ pc = "main"
    /\ TokenAbsent(GITHUB_TOKEN)
    /\ Fail("EnvironmentError")
    /\ UNCHANGED <<GITHUB_TOKEN, repos, i, readme, verified_links, j,
                   all_docs, indexed, calls, frags, seps>>

\* main, token present: enter index_verified_answers (lines 125, 81-84)
MainStart ==
    /\ pc = "main"
    /\ ~TokenAbsent(GITHUB_TOKEN)
    /\ all_docs' = <<>>
    /\ pc' = "get_repos"
    /\ UNCHANGED <<GITHUB_TOKEN, repos, i, readme, verified_links, j,
                   indexed, calls, error, frags, seps>>

\* where the loop over repos goes after the repository at position k
AfterRepo(k, n) == IF k + 1 > n THEN "finish" ELSE "readme"

\* repos = get_repos(ORG) (line 86)
ListRepos ==
    /\ pc = "get_repos"
    /\ \E res \in ListResponses :
         LET r == get_repos(res)
         IN  /\ calls' = Append(calls, Call("repos", 0, 0, res.status, r))
             /\ IF r.exc # ""
                THEN /\ Fail(r.exc)
                     /\ UNCHANGED <<repos, i>>
                ELSE /\ repos' = r.value
                     /\ i' = 1
                     /\ pc' = AfterRepo(0, Len(r.value))
                     /\ error' = error
    /\ UNCHANGED <<GITHUB_TOKEN, readme, verified_links, j, all_docs,
                   indexed, frags, seps>>

\* one iteration of the loop over repos up to its first file fetch
\* (lines 89-96)
ProcessRepo ==
    /\ pc = "readme"
    /\ \E res \in ContentResponses(ReadmeBodies) :
         LET r     == get_readme(res)
             c     == Call("readme", i, 0, 0, r)
             links == extract_verified_links(r.value)
         IN  IF r.exc # ""
             THEN /\ Fail(r.exc)
                  /\ calls' = Append(calls, c)
                  /\ UNCHANGED <<i, readme, verified_links, j>>
             ELSE /\ readme' = r.value
                  /\ error' = error
                  /\ IF ReadmeEmpty(r.value)
                     THEN /\ calls' = Append(calls, c)
                          /\ i' = i + 1
                          /\ pc' = AfterRepo(i, Len(repos))
                          /\ UNCHANGED <<verified_links, j>>
                     ELSE /\ calls' = calls \o
                               <<c, Call("extract", i, 0, 0, Returned(links))>>
                          /\ verified_links' = links
                          /\ IF links = <<>>
                             THEN /\ i' = i + 1
                                  /\ pc' = AfterRepo(i, Len(repos))
                                  /\ j' = j
                             ELSE /\ i' = i
                                  /\ pc' = "file"
                                  /\ j' = 1
    /\ UNCHANGED <<GITHUB_TOKEN, repos, all_docs, indexed, frags, seps>>

\* one iteration of the loop over verified_links (lines 96-109)
ProcessEntry ==
    /\ pc = "file"
    /\ \E res \in ContentResponses(FileBodies) :
         LET r        == get_file_content(res)
             title    == verified_links[j][1]
             filepath == verified_links[j][2]
             nextj    == IF ContentEmpty(r.value)
                         THEN SkipEntry(j, Len(verified_links)) ELSE j + 1
         IN  /\ calls' = Append(calls, Call("file", i, j, 0, r))
             /\ IF r.exc # ""
                THEN /\ Fail(r.exc)
                     /\ UNCHANGED <<i, j, all_docs>>
                ELSE /\ error' = error
                     /\ all_docs' =
                          IF ContentEmpty(r.value) THEN all_docs
                          ELSE AppendDoc(all_docs,
                                  Doc(repos[i], title, filepath, r.value))
                     /\ j' = nextj
                     /\ IF nextj > Len(verified_links)
                        THEN i' = i + 1 /\ pc' = AfterRepo(i, Len(repos))
                        ELSE i' = i /\ pc' = "file"
    /\ UNCHANGED <<GITHUB_TOKEN, repos, readme, verified_links, indexed,
                   frags, seps>>

\* if not all_docs: return (lines 111-113)
FinishEmpty ==
    /\ pc = "finish"
    /\ NoDocs(all_docs)
    /\ pc' = "done"
    /\ UNCHANGED <<GITHUB_TOKEN, repos, i, readme, verified_links, j,
                   all_docs, indexed, calls, error, frags, seps>>

\* index.add_documents(all_docs) (lines 115-117); the call returns or raises
AddDocuments ==
    /\ pc = "finish"
    /\ ~NoDocs(all_docs)
    /\ indexed' = Append(indexed, all_docs)
    /\ \E ok \in BOOLEAN :
         LET r == IF ok THEN Returned(<<>>) ELSE Raised("MeilisearchError")
         IN  /\ calls' = Append(calls, Call("add", 0, 0, 0, r))
             /\ IF ok THEN pc' = "done" /\ error' = error
                ELSE Fail(r.exc)
    /\ UNCHANGED <<GITHUB_TOKEN, repos, i, readme, verified_links, j,
                   all_docs, frags, seps>>

Next ==
    \/ MainMissingToken
    \/ MainStart
    \/ ListRepos
    \/ ProcessRepo
    \/ ProcessEntry
    \/ FinishEmpty
    \/ AddDocuments

Spec == Init /\ [][Next]_vars

\* ---- the extractor on its own ----------------------------------------------
ExtractInit ==
    /\ frags \in SeqsUpTo(Variants, MaxFrags)
    /\ seps \in [1..Len(frags) -> {SP, NL}]
    /\ readme = Render(frags, seps)
    /\ verified_links = <<>>
    /\ pc = "extract"
    /\ GITHUB_TOKEN = "ghp_token"
    /\ repos = <<>>
    /\ i = 0
    /\ j = 0
    /\ all_docs = <<>>
    /\ indexed = <<>>
    /\ calls = <<>>
    /\ error = ""

\* verified_links = extract_verified_links(readme) (line 95)
Extract ==
    /\ pc = "extract"
    /\ verified_links' = extract_verified_links(readme)
    /\ pc' = "extracted"
    /\ UNCHANGED <<GITHUB_TOKEN, repos, i, readme, j, all_docs, indexed,
                   calls, error, frags, seps>>

ExtractNext == Extract

ExtractSpec == ExtractInit /\ [][ExtractNext]_vars

\* ---- reading the call trace -------------------------------------------------
CallsOf(op) == { k \in 1..Len(calls) : calls[k].op = op }

\* the calls that returned
ReturnedCalls(op) == { k \in CallsOf(op) : calls[k].exc = "" }

TokenMissing == GITHUB_TOKEN = None \/ GITHUB_TOKEN = ""

\* every repository of the listing has been gone through
AllProcessed ==
    \/ pc \in {"finish", "done"}
    \/ pc = "failed" /\ error = "MeilisearchError"

\* C1: with the token unset or empty the run ends with the configuration
\* error and no call is ever made: nothing is requested from the hosting
\* API and nothing is handed to the search index.
C1_NoCallWithoutToken ==
    TokenMissing =>
        /\ calls = <<>> /\ indexed = <<>> /\ all_docs = <<>>
        /\ pc \in {"main", "failed"}
        /\ pc = "failed" => error = "EnvironmentError"

C1_Witness ==
    GITHUB_TOKEN = "" /\ pc = "failed" /\ error = "EnvironmentError"

\* C2: a run that has gone through all repositories with an empty
\* collection never calls add_documents and ends without an error; no batch
\* handed to the index is ever empty.
C2_EmptyNeverIndexed ==
    /\ \A b \in 1..Len(indexed) : indexed[b] # <<>>
    /\ AllProcessed /\ all_docs = <<>> =>
          /\ CallsOf("add") = {} /\ indexed = <<>>
          /\ pc # "failed" /\ error = ""

C2_Witness ==
    /\ pc = "done" /\ all_docs = <<>> /\ Len(repos) >= 1
    /\ \E k \in ReturnedCalls("file") : calls[k].result = <<>>

DocFields == {"repo", "file", "title", "verified", "content", "url"}

HasReadme(k) == \E c \in ReturnedCalls("readme") : calls[c].idx = k

\* the README text fetched for the repository at position k of the listing
ReadmeOf(k) ==
    LET rc == CHOOSE c \in ReturnedCalls("readme") : calls[c].idx = k
    IN  calls[rc].result

\* the document d comes from the entry e, entry m of the README of the
\* repository at position k
DocFrom(d, k, m, e) ==
    /\ e[1] # <<>> /\ e[2] # <<>>
    /\ d.file = e[2]
    /\ d.title = Strip(e[1])
    /\ \E fc \in ReturnedCalls("file") :
         /\ calls[fc].idx = k /\ calls[fc].ent = m
         /\ calls[fc].result # <<>>
         /\ d.content = calls[fc].result

WholeDoc(d) ==
    /\ DOMAIN d = DocFields
    /\ d.verified = TRUE
    /\ d.url = Url(d.repo, d.file)
    /\ \E k \in 1..Len(repos) :
         /\ d.repo = repos[k]
         /\ HasReadme(k)
         /\ ReadmeOf(k) # <<>>
         /\ LET links == extract_verified_links(ReadmeOf(k))
            IN  \E m \in 1..Len(links) : DocFrom(d, k, m, links[m])

\* C3: every document of the collection, and of a submitted batch, has the
\* six fields and comes from an entry with a non-empty title and path that
\* was extracted from a non-empty README of a listed repository and whose
\* file fetch returned non-empty content.
C3_DocsWholeAndSourced ==
    \A d \in { all_docs[n] : n \in 1..Len(all_docs) }
              \cup UNION { { indexed[b][n] : n \in 1..Len(indexed[b]) } :
                           b \in 1..Len(indexed) } :
        WholeDoc(d)

C3_Witness ==
    /\ pc = "done" /\ Len(all_docs) >= 2 /\ indexed # <<>>
    /\ \E k \in ReturnedCalls("file") : calls[k].result = <<>>
    /\ \E n \in 1..Len(all_docs) : all_docs[n].title = <<"t1">>

\* the listing request got a response with this status
ListingStatus(S) ==
    /\ calls # <<>>
    /\ calls[1].op = "repos"
    /\ calls[1].exc # "ConnectionError"
    /\ calls[1].status \in S

AbortedAtListing ==
    /\ pc = "failed"
    /\ Len(calls) = 1
    /\ indexed = <<>> /\ all_docs = <<>>

\* C4 as stated: a listing response with any status outside 200..299 aborts
\* the run after that one request.
C4_AnyNonSuccessAborts ==
    ListingStatus(100..599 \ 200..299) => AbortedAtListing

\* C4 amended: a listing response with an error status (400..599) aborts
\* the run with the HTTP error after that one request: no README request, no
\* file request, no batch, no second listing request.
C4_ErrorStatusAborts ==
    ListingStatus(400..599) => AbortedAtListing /\ error = "HTTPError"

C4_Witness ==
    ListingStatus({404}) /\ pc = "failed" /\ GITHUB_TOKEN = "ghp_token"

\* C5 as stated: only the missing token and a failed listing end the run
\* with an error; every README fetch and file fetch returns (an empty
\* result when it failed) instead of raising.
C5_OnlyTwoFatalClasses ==
    /\ \A k \in CallsOf("readme") \cup CallsOf("file") : calls[k].exc = ""
    /\ pc = "failed" =>
          \/ error = "EnvironmentError"
          \/ Len(calls) = 1 /\ calls[1].op = "repos"

\* C6: a repository whose README fetch returned empty gets no extractor
\* call and no file fetch, adds no document, and the loop is past it.
C6_EmptyReadmeSkipsRepo ==
    \A rc \in ReturnedCalls("readme") :
        calls[rc].result = <<>> =>
            /\ \A k \in CallsOf("extract") \cup CallsOf("file") :
                  calls[k].idx # calls[rc].idx
            /\ \A n \in 1..Len(all_docs) :
                  all_docs[n].repo # repos[calls[rc].idx]
            /\ i > calls[rc].idx

C6_Witness ==
    /\ \E rc \in ReturnedCalls("readme") :
         calls[rc].result = <<>> /\ calls[rc].idx = 1
    /\ \E k \in CallsOf("file") : calls[k].idx = 2
    /\ all_docs # <<>>

Last(s) == s[Len(s)]

\* the step is a file fetch that returned empty
EmptyFileFetch ==
    /\ pc = "file"
    /\ Len(calls') = Len(calls) + 1
    /\ Last(calls').op = "file"
    /\ Last(calls').exc = ""
    /\ Last(calls').result = <<>>

\* every entry of the README of the repository at position k that the loops
\* have passed was fetched
PassedFetched(k, links) ==
    \A m \in 1..Len(links) :
        (k < i \/ (k = i /\ pc = "file" /\ m < j)) =>
            \E fc \in CallsOf("file") : calls[fc].idx = k /\ calls[fc].ent = m

\* every entry the loops have passed was fetched
PassedEntriesFetched ==
    pc \in {"readme", "file", "finish", "done"} =>
        \A k \in 1..Len(repos) :
            HasReadme(k) =>
                PassedFetched(k, extract_verified_links(ReadmeOf(k)))

\* C7: a file fetch that returns empty adds no document, leaves the
\* collected documents as they are and does not end the run: the loop goes
\* on with the next entry of the README, or after the last entry with the
\* next repository (or the final step); entries and repositories after an
\* empty fetch are fetched like any other.
C7_EmptyFileSkipsEntry ==
    /\ []PassedEntriesFetched
    /\ [][EmptyFileFetch =>
            /\ all_docs' = all_docs
            /\ error' = ""
            /\ IF j < Len(verified_links)
               THEN pc' = "file" /\ j' = j + 1 /\ i' = i
               ELSE /\ i' = i + 1
                    /\ pc' = IF i < Len(repos) THEN "readme" ELSE "finish"]_vars

C7_Witness ==
    \E a, b \in ReturnedCalls("file") : \E c \in CallsOf("readme") :
        /\ a < b /\ b < c
        /\ calls[a].result = <<>> /\ calls[a].ent = 1
        /\ calls[b].idx = calls[a].idx /\ calls[b].ent = 2
        /\ calls[b].result # <<>>
        /\ calls[c].idx = calls[a].idx + 1
        /\ Len(all_docs) = 1

ContentOf(k, m) ==
    LET fc == CHOOSE c \in ReturnedCalls("file") :
                 calls[c].idx = k /\ calls[c].ent = m
    IN  calls[fc].result

RECURSIVE ExpectedOfRepo(_, _, _)
\* the documents of the entries of links from m on, for the repository at
\* position k, in the order of links
ExpectedOfRepo(k, links, m) ==
    IF m > Len(links) THEN <<>>
    ELSE (IF ContentOf(k, m) = <<>> THEN <<>>
          ELSE <<Doc(repos[k], links[m][1], links[m][2], ContentOf(k, m))>>)
         \o ExpectedOfRepo(k, links, m + 1)

RECURSIVE ExpectedFrom(_)
\* the documents of the repositories from position k on, in listing order
\* and, within a repository, in README order
ExpectedFrom(k) ==
    IF k > Len(repos) THEN <<>>
    ELSE ExpectedOfRepo(k, extract_verified_links(ReadmeOf(k)), 1)
         \o ExpectedFrom(k + 1)

\* C8: add_documents is called at most once, only after the last repository
\* of the listing, with the whole collection: one document per entry whose
\* file fetch returned content, in listing order and within a repository in
\* README order; a run that ends normally with a non-empty collection has
\* made the call exactly once.
C8_OneOrderedBatch ==
    /\ Len(indexed) <= 1
    /\ Cardinality(CallsOf("add")) = Len(indexed)
    /\ pc = "done" /\ all_docs # <<>> => Len(indexed) = 1
    /\ indexed # <<>> =>
          /\ i = Len(repos) + 1
          /\ Last(calls).op = "add"
          /\ \A k \in 1..Len(repos) : HasReadme(k)
          /\ indexed[1] = all_docs
          /\ indexed[1] = ExpectedFrom(1)

C8_Witness ==
    /\ pc = "done" /\ Len(indexed) = 1 /\ Len(indexed[1]) >= 3
    /\ indexed[1][1].repo # indexed[1][3].repo
    /\ \E k \in ReturnedCalls("file") : calls[k].result = <<>>

\* ---- the extractor's claims ----------------------------------------------
Pair(k) == <<FragTitle(frags[k], k), FragPath(frags[k], k)>>

\* a checkmark, whitespace, a bold title, text, an arrow, a path in backquotes
Markers == {"plain", "text_gap", "nl_title", "nl_gap", "nl_space", "padded"}

\* the markers with a line break in the title or between title and arrow
BrokenLine == {"nl_title", "nl_gap"}

AllMarkers == \A k \in 1..Len(frags) : frags[k] \in Markers

\* C9: in a README made of markers, a marker with a line break in its title
\* or between its title and its arrow still yields its (title, path) pair.
C9_MatchesAcrossLineBreaks ==
    pc = "extracted" /\ AllMarkers =>
        \A k \in 1..Len(frags) :
            frags[k] \in BrokenLine =>
                \E m \in 1..Len(verified_links) : verified_links[m] = Pair(k)

\* index of the first character after the closing ** of fragment k
AfterTitle(k) ==
    FragStart(frags, k) + (IF frags[k] = "no_check" THEN 0 ELSE 1) + 1 + 2
        + Len(FragTitle(frags[k], k)) + 2

\* index of the first line feed of s at or after c, Len(s) + 1 when none
LineEnd(s, c) ==
    Min({ n \in c..Len(s) : s[n] = NL } \cup {Len(s) + 1})

\* at a: an arrow, optional whitespace, a non-empty path in backquotes
ArrowPathAt(s, a) ==
    /\ At(s, a) = ARROW
    /\ \E v \in a..Len(s) :
         /\ \A q \in (a+1)..v : s[q] \in {SP, NL}
         /\ At(s, v + 1) = TICK
         /\ \E p \in (v+2)..Len(s) :
              /\ \A q \in (v+2)..p : s[q] # TICK
              /\ At(s, p + 1) = TICK

\* the rest of the line after the title of fragment k has an arrow that is
\* followed by a path in backquotes
TailOnLine(k) ==
    \E a \in AfterTitle(k)..(LineEnd(readme, AfterTitle(k)) - 1) :
        ArrowPathAt(readme, a)

\* somewhere in s: a checkmark, whitespace, a non-empty title between double
\* asterisks, any text, an arrow, optional whitespace and a non-empty path in
\* backquotes (the marker form, whatever the characters of title and text)
MarkerOccurs(s) ==
    \E c \in 1..Len(s) :
        /\ s[c] = CHK
        /\ \E w \in (c+1)..Len(s) :
             /\ \A q \in (c+1)..w : s[q] \in {SP, NL}
             /\ At(s, w + 1) = STAR /\ At(s, w + 2) = STAR
             /\ \E t \in (w+3)..Len(s) :
                  /\ At(s, t + 1) = STAR /\ At(s, t + 2) = STAR
                  /\ \E a \in (t+3)..Len(s) : ArrowPathAt(s, a)

\* no pair of the result has the title of fragment k
NoPairTitled(k) ==
    \A m \in 1..Len(verified_links) : verified_links[m][1] # Pair(k)[1]

\* C10 as stated: a fragment whose path is not in backquotes yields no pair
\* with its title whatever follows it, and a README without a well-formed
\* marker yields the empty sequence.
C10_MalformedAlwaysSkipped ==
    pc = "extracted" =>
        /\ \A k \in 1..Len(frags) : frags[k] = "bare_path" => NoPairTitled(k)
        /\ ~MarkerOccurs(readme) => verified_links = <<>>

\* C10 amended: a fragment whose path is not in backquotes, at any place of
\* the README, yields no pair with its title when the rest of its line,
\* after the title, has no arrow followed by optional whitespace and a
\* non-empty path in backquotes; and a README without a well-formed marker
\* yields the empty sequence.
C10_MalformedSkippedOnOwnLine ==
    pc = "extracted" =>
        /\ \A k \in 1..Len(frags) :
              frags[k] = "bare_path" /\ ~TailOnLine(k) => NoPairTitled(k)
        /\ ~MarkerOccurs(readme) => verified_links = <<>>

C10_Witness ==
    /\ pc = "extracted" /\ Len(frags) = 3
    /\ frags = <<"bare_path", "bare_path", "plain">>
    /\ seps[1] = SP /\ seps[2] = NL
    /\ ~TailOnLine(1) /\ ~TailOnLine(2)
    /\ verified_links = <<Pair(3)>>
====
